---------------------------- MODULE Spec2Model ----------------------------
(***************************************************************************)
(* api/index.py: a Flask application with flask_cors enabled and two       *)
(* routes, GET /api/test and POST /api/analyze, each returning a fixed     *)
(* JSON document.                                                          *)
(*                                                                         *)
(* The state is what a running server holds: one request context per      *)
(* worker, going through Flask's request pipeline                          *)
(*   push context (URL matching) -> dispatch_request -> after_request      *)
(*   (flask_cors) -> WSGI response.                                        *)
(* The application object itself (URL map, view functions, CORS options)   *)
(* is built once by lines 4-15 at import and is never written afterwards;  *)
(* it is modelled by the definitions url_map, view functions and           *)
(* cors_options.                                                           *)
(***************************************************************************)
EXTENDS Naturals, Sequences, FiniteSets

VARIABLES ctx

vars == << ctx >>

(* Number of requests the server handles at the same time. *)
MaxWorkers == 2

Workers == 1 .. MaxWorkers

(* Marks an absent header, an absent body, an absent view function. *)
None == "<none>"

---------------------------------------------------------------------------
(* Requests.  A path is its sequence of segments: /api/test is            *)
(* <<"api", "test">> and /api/test/ is <<"api", "test", "">>.             *)

Methods == {"GET", "HEAD", "POST", "PUT", "DELETE", "OPTIONS"}

Paths ==
    { <<"api", "test">>, <<"api", "analyze">>, <<"api", "unknown">>,
      <<"api", "test", "">>, <<"static", "app.js">> }

Queries == {"", "x=1"}

Origins == {None, "https://a.example", "https://b.example"}

(* Values of the Access-Control-Request-Method header. *)
RequestMethods == {None, "GET", "POST", "TRACE"}

(* Values of the Access-Control-Request-Headers header. *)
RequestHeaders == {None, "content-type"}

(* Content-Type and body of a request. *)
Payloads ==
    { [ctype |-> None, body |-> None],
      [ctype |-> None, body |-> ""],
      [ctype |-> "application/json", body |-> "{\"a\": 1}"],
      [ctype |-> "application/json", body |-> "garbage-not-json"],
      [ctype |-> "application/octet-stream", body |-> "\\x00\\xff"] }

Requests ==
    [ method : Methods, path : Paths, query : Queries, origin : Origins,
      acrm : RequestMethods, acrh : RequestHeaders, payload : Payloads ]

(* The requests of the concurrent specification: no query, no payload. *)
ConcRequests ==
    { r \in Requests :
        /\ r.method \in {"GET", "HEAD", "POST", "OPTIONS"}
        /\ r.path \in { <<"api", "test">>, <<"api", "analyze">>, <<"api", "unknown">> }
        /\ r.query = ""
        /\ r.origin \in {None, "https://a.example"}
        /\ r.acrm = (IF r.method = "OPTIONS" /\ r.origin # None THEN "POST" ELSE None)
        /\ r.acrh = None
        /\ r.payload = [ctype |-> None, body |-> None] }

(* The requests of the fair specification: those without an Origin. *)
LiveRequests == {r \in ConcRequests : r.origin = None /\ r.method # "HEAD"}

NoRequest ==
    [ method |-> None, path |-> << >>, query |-> "", origin |-> None,
      acrm |-> None, acrh |-> None, payload |-> [ctype |-> None, body |-> None] ]

---------------------------------------------------------------------------
(* Responses.  A body is a sequence of tokens; the empty body is << >>. *)

Response(status, ctype, allow, body) ==
    [ status |-> status, ctype |-> ctype, allow |-> allow, body |-> body,
      acao |-> None, acam |-> {}, acah |-> None, vary |-> None ]

NoResponse == Response(0, None, {}, << >>)

(* json.dumps of a dict with string keys and values, as a token sequence. *)
quote(s) == "\"" \o s \o "\""

dumps(obj) ==
    << "{", quote(obj[1][1]), ":", quote(obj[1][2]), "}" >>

(* jsonify replaced by returning the dumped string: Flask sends a str as   *)
(* text/html.                                                              *)
jsonify_as_str(obj) ==
    Response(200, "text/html; charset=utf-8", {}, dumps(obj))

(* flask.jsonify: status 200, mimetype application/json, the dumped       *)
(* document followed by a newline.                                         *)
jsonify(obj) ==
    Response(200, "application/json", {}, dumps(obj) \o << "\n" >>)

(* test_route answering with the other route's message. *)
test_route_other_message(request) ==
    jsonify(<< <<"message", "Analyze endpoint hit successfully">> >>)

(* test_route putting a module-level hit count into its message: the body  *)
(* depends on the answers already given.                                   *)
test_route_hit_count(request) ==
    jsonify(<< <<"message",
                 IF \E w \in Workers : ctx[w].stage = "sent"
                 THEN "Backend is Connected and Working! (again)"
                 ELSE "Backend is Connected and Working!">> >>)

(* lines 9-10.  request is flask.request, the request of the context the  *)
(* view runs in; the view does not read it.                                *)
test_route(request) ==
    jsonify(<< <<"message", "Backend is Connected and Working!">> >>)

(* analyze_data calling request.get_json(): 400 unless the body is JSON. *)
analyze_data_get_json(request) ==
    IF request.payload = [ctype |-> "application/json", body |-> "{\"a\": 1}"]
    THEN jsonify(<< <<"message", "Analyze endpoint hit successfully">> >>)
    ELSE Response(400, "text/html; charset=utf-8", {},
                  << "<!doctype html>", "Bad Request" >>)

(* lines 14-15 *)
analyze_data(request) ==
    jsonify(<< <<"message", "Analyze endpoint hit successfully">> >>)

---------------------------------------------------------------------------
(* The application object built at import.                                 *)

(* add_url_rule without the methods argument taking effect: the route     *)
(* answers every method.                                                   *)
add_url_rule_any_method(rule, endpoint, methods) ==
    [ rule |-> rule, endpoint |-> endpoint,
      methods |-> {"GET", "HEAD", "POST", "PUT", "DELETE", "OPTIONS"},
      provide_automatic_options |-> TRUE ]

(* add_url_rule with provide_automatic_options off: OPTIONS is not added. *)
add_url_rule_no_options(rule, endpoint, methods) ==
    [ rule |-> rule, endpoint |-> endpoint,
      methods |-> methods \cup (IF "GET" \in methods THEN {"HEAD"} ELSE {}),
      provide_automatic_options |-> FALSE ]

(* Flask.add_url_rule with werkzeug's Rule: OPTIONS is added because the   *)
(* view sets no provide_automatic_options and OPTIONS is not among its     *)
(* methods; HEAD is added to every rule that has GET.                      *)
add_url_rule(rule, endpoint, methods) ==
    [ rule |-> rule, endpoint |-> endpoint,
      methods |-> methods \cup {"OPTIONS"}
                    \cup (IF "GET" \in methods THEN {"HEAD"} ELSE {}),
      provide_automatic_options |-> "OPTIONS" \notin methods ]

(* line 4: Flask(__name__) registers /static/<path:filename>. *)
static_rule == add_url_rule(<<"static", "<path:filename>">>, "static", {"GET"})

(* line 8 *)
test_rule == add_url_rule(<<"api", "test">>, "test_route", {"GET"})

(* line 13 *)
analyze_rule == add_url_rule(<<"api", "analyze">>, "analyze_data", {"POST"})

url_map == {static_rule, test_rule, analyze_rule}

(* Files under the application's static folder: the repository has none. *)
static_files == {}

(* Rule matching with strict_slashes off: a trailing slash is ignored. *)
PathMatchesLoose(rule, path) ==
    \/ path = rule
    \/ path = rule \o << "" >>

(* werkzeug's rule matching on the path alone: segment by segment, a      *)
(* <path:...> converter taking one or more non-empty remaining segments.   *)
PathMatches(rule, path) ==
    IF rule[Len(rule)] = "<path:filename>"
    THEN /\ Len(path) >= Len(rule)
         /\ \A i \in 1 .. (Len(rule) - 1) : path[i] = rule[i]
         /\ \A i \in Len(rule) .. Len(path) : path[i] # ""
    ELSE path = rule

(* MapAdapter.match: the rule for (path, method); MethodNotAllowed with    *)
(* the methods of the rules the path matches; else NotFound.  The query    *)
(* string takes no part.                                                   *)
match_request(req) ==
    LET have == {r \in url_map : PathMatches(r.rule, req.path)}
        ok   == {r \in have : req.method \in r.methods}
    IN  IF ok # {}
        THEN [rule |-> CHOOSE r \in ok : TRUE, exc |-> 0, allow |-> {}]
        ELSE IF have # {}
        THEN [rule |-> static_rule, exc |-> 405,
              allow |-> UNION {r.methods : r \in have}]
        ELSE [rule |-> static_rule, exc |-> 404, allow |-> {}]

(* HTTPException.get_response: an HTML page, Allow on a 405. *)
http_exception(code, allow) ==
    Response(code, "text/html; charset=utf-8", allow,
             << "<!doctype html>", IF code = 404 THEN "Not Found"
                                   ELSE "Method Not Allowed" >>)

(* Flask.make_default_options_response *)
make_default_options_response(rule) ==
    Response(200, "text/html; charset=utf-8", rule.methods, << >>)

(* Flask.send_static_file *)
send_static_file(path) ==
    IF path \in static_files
    THEN Response(200, "application/octet-stream", {}, << "file" >>)
    ELSE http_exception(404, {})

(* The view function Flask.dispatch_request calls, None when it calls none. *)
view_of(req) ==
    LET m == match_request(req)
    IN  IF m.exc # 0 THEN None
        ELSE IF m.rule.provide_automatic_options /\ req.method = "OPTIONS" THEN None
        ELSE m.rule.endpoint

(* Flask.full_dispatch_request up to the response object: the routing     *)
(* exception, the automatic OPTIONS response or the view's return value.   *)
dispatch_request(req) ==
    LET m == match_request(req)
        v == view_of(req)
    IN  IF m.exc # 0 THEN http_exception(m.exc, m.allow)
        ELSE IF v = None THEN make_default_options_response(m.rule)
        ELSE IF v = "test_route" THEN test_route(req)
        ELSE IF v = "analyze_data" THEN analyze_data(req)
        ELSE send_static_file(req.path)

---------------------------------------------------------------------------
(* CORS(app, origins=["https://a.example"]): one origin allowed. *)
cors_options_one_origin ==
    [ origins |-> {"https://a.example"},
      methods |-> {"GET", "HEAD", "POST", "OPTIONS", "PUT", "PATCH", "DELETE"},
      allow_headers |-> {".*"}, always_send |-> TRUE, send_wildcard |-> FALSE,
      supports_credentials |-> FALSE, vary_header |-> TRUE ]

(* line 5: CORS(app) with flask_cors' defaults. *)
cors_options ==
    [ origins |-> {".*"}, methods |-> {"GET", "HEAD", "POST", "OPTIONS", "PUT", "PATCH", "DELETE"},
      allow_headers |-> {".*"}, always_send |-> TRUE, send_wildcard |-> FALSE,
      supports_credentials |-> FALSE, vary_header |-> TRUE ]

(* flask_cors.core.get_cors_origins *)
get_cors_origins(options, request_origin) ==
    LET wildcard == ".*" \in options.origins
    IN  IF request_origin # None
        THEN IF wildcard /\ options.send_wildcard THEN "*"
             ELSE IF wildcard \/ request_origin \in options.origins THEN request_origin
             ELSE None
        ELSE IF options.always_send
        THEN IF wildcard /\ ~options.supports_credentials THEN "*" ELSE None
        ELSE None

(* flask_cors.core.set_cors_headers on a response that has no             *)
(* Access-Control-Allow-Origin yet; the resource pattern /* matches every  *)
(* path.                                                                   *)
cors_after_request(req, resp) ==
    LET origin == get_cors_origins(cors_options, req.origin)
    IN  IF resp.acao # None \/ origin = None THEN resp
        ELSE [resp EXCEPT
                !.acao = origin,
                !.acam = IF req.method = "OPTIONS" /\ req.acrm \in cors_options.methods
                         THEN cors_options.methods ELSE {},
                !.acah = IF /\ req.method = "OPTIONS"
                            /\ req.acrm \in cors_options.methods
                            /\ ".*" \in cors_options.allow_headers
                         THEN req.acrh ELSE None,
                !.vary = IF cors_options.vary_header /\ origin # "*"
                         THEN "Origin" ELSE None]

(* werkzeug's Response.__call__: no body in answer to HEAD. *)
get_wsgi_response(req, resp) ==
    IF req.method = "HEAD" THEN [resp EXCEPT !.body = << >>] ELSE resp

---------------------------------------------------------------------------
(* The request pipeline, Flask.wsgi_app, one step at a time per worker. *)

Idle ==
    [ stage |-> "idle", req |-> NoRequest, resp |-> NoResponse,
      ran |-> None, out |-> 0 ]

Init == ctx = [w \in Workers |-> Idle]

(* ctx.push(): the request context of worker w. *)
Receive(w, r) ==
    /\ ctx[w].stage = "idle"
    /\ ctx' = [ctx EXCEPT ![w] = [Idle EXCEPT !.stage = "pushed", !.req = r]]

(* Dispatch reading a process-global current request instead of the       *)
(* worker's own context.                                                   *)
DispatchGlobalRequest(w) ==
    /\ ctx[w].stage = "pushed"
    /\ \E v \in Workers :
          /\ ctx[v].stage # "idle"
          /\ ctx' = [ctx EXCEPT ![w].stage = "dispatched",
                                ![w].ran = view_of(ctx[v].req),
                                ![w].resp = dispatch_request(ctx[v].req)]

(* Dispatch under a process-wide lock held until the response is sent. *)
DispatchLocked(w) ==
    /\ ctx[w].stage = "pushed"
    /\ \A v \in Workers \ {w} : ctx[v].stage \notin {"dispatched", "processed"}
    /\ ctx' = [ctx EXCEPT ![w].stage = "dispatched",
                          ![w].ran = view_of(ctx[w].req),
                          ![w].resp = dispatch_request(ctx[w].req)]

(* dispatch_request and make_response. *)
Dispatch(w) ==
    /\ ctx[w].stage = "pushed"
    /\ ctx' = [ctx EXCEPT ![w].stage = "dispatched",
                          ![w].ran = view_of(ctx[w].req),
                          ![w].resp = dispatch_request(ctx[w].req)]

(* process_response: the after_request function flask_cors registered. *)
AfterRequest(w) ==
    /\ ctx[w].stage = "dispatched"
    /\ ctx' = [ctx EXCEPT ![w].stage = "processed",
                          ![w].resp = cors_after_request(ctx[w].req, ctx[w].resp)]

(* response(environ, start_response): the response goes to the client. *)
Send(w) ==
    /\ ctx[w].stage = "processed"
    /\ ctx' = [ctx EXCEPT ![w].stage = "sent",
                          ![w].resp = get_wsgi_response(ctx[w].req, ctx[w].resp),
                          ![w].out = ctx[w].out + 1]

(* ctx.pop(): the worker is free for the next request. *)
Pop(w) ==
    /\ ctx[w].stage = "sent"
    /\ ctx' = [ctx EXCEPT ![w] = Idle]

(* One worker, every request. *)
Next ==
    \/ \E r \in Requests : Receive(1, r)
    \/ Dispatch(1)
    \/ AfterRequest(1)
    \/ Send(1)
    \/ Pop(1)

Spec == Init /\ [][Next]_vars

(* MaxWorkers workers running concurrently. *)
ConcNext ==
    \E w \in Workers :
        \/ \E r \in ConcRequests : Receive(w, r)
        \/ Dispatch(w)
        \/ AfterRequest(w)
        \/ Send(w)
        \/ Pop(w)

ConcSpec == Init /\ [][ConcNext]_vars

(* A worker that has a request runs it to the end. *)
LiveNext ==
    \E w \in Workers :
        \/ \E r \in LiveRequests : Receive(w, r)
        \/ Dispatch(w)
        \/ AfterRequest(w)
        \/ Send(w)
        \/ Pop(w)

FairSpec ==
    /\ Init /\ [][LiveNext]_vars
    /\ \A w \in Workers :
          WF_vars(Dispatch(w) \/ AfterRequest(w) \/ Send(w) \/ Pop(w))

---------------------------------------------------------------------------
(* What a client sees and how it reads it. *)

TestPath == <<"api", "test">>
AnalyzePath == <<"api", "analyze">>
RoutePaths == {TestPath, AnalyzePath}

TestMessage == << <<"message", "Backend is Connected and Working!">> >>
AnalyzeMessage == << <<"message", "Analyze endpoint hit successfully">> >>

(* The worker's response has gone to the client. *)
Answered(w) == ctx[w].stage = "sent"

(* json.loads of a body holding one object with one string member;        *)
(* << >> when the body is no such document.  Trailing newlines are          *)
(* whitespace.                                                             *)
loads(body) ==
    LET known == {TestMessage, AnalyzeMessage}
        docs  == {d \in known :
                     /\ Len(body) >= Len(dumps(d))
                     /\ SubSeq(body, 1, Len(dumps(d))) = dumps(d)
                     /\ \A i \in (Len(dumps(d)) + 1) .. Len(body) : body[i] = "\n"}
    IN  IF docs = {} THEN << >> ELSE CHOOSE d \in docs : TRUE

Is2xx(status) == status \in 200 .. 299

(* The response worker w's request gets when it is the only request the   *)
(* server ever handles.                                                    *)
Alone(req) ==
    get_wsgi_response(req, cors_after_request(req, dispatch_request(req)))

---------------------------------------------------------------------------
(* C1: every answered GET /api/test, whatever its query, headers and body, *)
(* has status 200 and a body that is the JSON object                       *)
(* {"message": "Backend is Connected and Working!"}.                       *)
C1_TestRoute ==
    \A w \in Workers :
        (Answered(w) /\ ctx[w].req.method = "GET" /\ ctx[w].req.path = TestPath)
        => /\ ctx[w].resp.status = 200
           /\ loads(ctx[w].resp.body) = TestMessage

C1_Witness ==
    \E w \in Workers :
        /\ Answered(w) /\ ctx[w].req.method = "GET" /\ ctx[w].req.path = TestPath
        /\ ctx[w].req.query = "x=1"
        /\ ctx[w].req.origin # None
        /\ ctx[w].req.payload.body = "garbage-not-json"

(* C2: every answered POST /api/analyze has status 200 and the body       *)
(* {"message": "Analyze endpoint hit successfully"}, and it has the status *)
(* and body of the same request sent with any other payload (content-type  *)
(* and body).                                                              *)
C2_AnalyzeIgnoresBody ==
    \A w \in Workers :
        (Answered(w) /\ ctx[w].req.method = "POST" /\ ctx[w].req.path = AnalyzePath)
        => /\ ctx[w].resp.status = 200
           /\ loads(ctx[w].resp.body) = AnalyzeMessage
           /\ \A p \in Payloads :
                 LET other == Alone([ctx[w].req EXCEPT !.payload = p])
                 IN  /\ other.status = ctx[w].resp.status
                     /\ other.body = ctx[w].resp.body

C2_Witness ==
    \E w \in Workers :
        /\ Answered(w) /\ ctx[w].req.method = "POST" /\ ctx[w].req.path = AnalyzePath
        /\ ctx[w].req.payload = [ctype |-> "application/json", body |-> "garbage-not-json"]

C4_Original ==
    \A w \in Workers :
        (/\ Answered(w)
         /\ \/ ctx[w].req.path = TestPath /\ ctx[w].req.method # "GET"
            \/ ctx[w].req.path = AnalyzePath /\ ctx[w].req.method # "POST")
        => ~Is2xx(ctx[w].resp.status) /\ ctx[w].ran = None

(* C4 amended: such a request is answered 405 without running a view      *)
(* function, except for the two methods Flask adds to the routes: OPTIONS  *)
(* on either path is answered 200 without running a view function, and     *)
(* HEAD on /api/test is answered 200 by running test_route and sending no  *)
(* body.                                                                   *)
C4_WrongMethod ==
    \A w \in Workers :
        (/\ Answered(w)
         /\ \/ ctx[w].req.path = TestPath /\ ctx[w].req.method # "GET"
            \/ ctx[w].req.path = AnalyzePath /\ ctx[w].req.method # "POST")
        => IF ctx[w].req.method = "OPTIONS"
           THEN ctx[w].resp.status = 200 /\ ctx[w].ran = None
           ELSE IF ctx[w].req.method = "HEAD" /\ ctx[w].req.path = TestPath
           THEN /\ ctx[w].resp.status = 200
                /\ ctx[w].ran = "test_route"
                /\ ctx[w].resp.body = << >>
           ELSE ctx[w].resp.status = 405 /\ ctx[w].ran = None

C4_Witness ==
    \E w \in Workers :
        /\ Answered(w)
        /\ ctx[w].req.path = AnalyzePath
        /\ ctx[w].req.method = "GET"
        /\ ctx[w].resp.status = 405

(* C5: every answered GET /api/test or POST /api/analyze that carries an   *)
(* Origin header has status 200, the route's body, and an                  *)
(* Access-Control-Allow-Origin that is * or the request's Origin.          *)
C5_CrossOrigin ==
    \A w \in Workers :
        (/\ Answered(w)
         /\ ctx[w].req.origin # None
         /\ \/ ctx[w].req.path = TestPath /\ ctx[w].req.method = "GET"
            \/ ctx[w].req.path = AnalyzePath /\ ctx[w].req.method = "POST")
        => /\ ctx[w].resp.status = 200
           /\ loads(ctx[w].resp.body) =
                 (IF ctx[w].req.path = TestPath THEN TestMessage ELSE AnalyzeMessage)
           /\ ctx[w].resp.acao \in {"*", ctx[w].req.origin}

C5_Witness ==
    \E w \in Workers :
        /\ Answered(w)
        /\ ctx[w].req.origin = "https://b.example"
        /\ ctx[w].req.path = AnalyzePath /\ ctx[w].req.method = "POST"
        /\ ctx[w].resp.acao = "https://b.example"

(* C6 as stated: every response sent has Content-Type application/json.    *)
C6_Original ==
    \A w \in Workers :
        Answered(w) => ctx[w].resp.ctype = "application/json"

(* C6 amended: every response made by test_route or analyze_data (every    *)
(* answer to GET or HEAD /api/test and to POST /api/analyze) has           *)
(* Content-Type application/json; the responses Flask makes itself (404,   *)
(* 405, the automatic OPTIONS answer) have text/html.                      *)
C6_JsonContentType ==
    \A w \in Workers :
        Answered(w)
        => IF ctx[w].ran \in {"test_route", "analyze_data"}
           THEN ctx[w].resp.ctype = "application/json"
           ELSE ctx[w].resp.ctype = "text/html; charset=utf-8"

C6_Witness ==
    \E w \in Workers :
        /\ Answered(w)
        /\ ctx[w].ran = "analyze_data"
        /\ ctx[w].resp.ctype = "application/json"

(* C7: two answers to the same request to /api/test or /api/analyze,       *)
(* whatever the server handled between them, have the same body.           *)
C7_Idempotent ==
    \A v, w \in Workers :
        (/\ Answered(v) /\ Answered(w)
         /\ ctx[v].req = ctx[w].req
         /\ ctx[v].req.path \in RoutePaths)
        => ctx[v].resp.body = ctx[w].resp.body

C7_Witness ==
    \E v, w \in Workers :
        /\ v # w
        /\ Answered(v) /\ Answered(w)
        /\ ctx[v].req = ctx[w].req
        /\ ctx[v].req.path = TestPath /\ ctx[v].req.method = "GET"

(* C8: under any interleaving of the workers, an answered request has the  *)
(* status and body it gets when it is the only request ever handled, and   *)
(* a step of the pipeline changes the context of one worker only.          *)
C8_Independent ==
    /\ [](\A w \in Workers :
             Answered(w)
             => /\ ctx[w].resp.status = Alone(ctx[w].req).status
                /\ ctx[w].resp.body = Alone(ctx[w].req).body)
    /\ [][\A v, w \in Workers :
             (ctx'[v] # ctx[v] /\ ctx'[w] # ctx[w]) => v = w]_vars

C8_Witness ==
    \E v, w \in Workers :
        /\ Answered(v)
        /\ ctx[w].stage = "dispatched"
        /\ ctx[v].req.path = TestPath /\ ctx[v].req.method = "GET"
        /\ ctx[w].req.path = AnalyzePath /\ ctx[w].req.method = "POST"

(* C9: a request a worker has taken is eventually answered, with exactly   *)
(* one response, and its next step never waits for another worker.         *)
C9_Responds ==
    /\ \A w \in Workers :
          (ctx[w].stage = "pushed") ~> (Answered(w) /\ ctx[w].out = 1)
    /\ [](\A w \in Workers :
             /\ ctx[w].out <= 1
             /\ Answered(w) => ctx[w].out = 1
             /\ ctx[w].stage = "pushed" => ENABLED Dispatch(w)
             /\ ctx[w].stage = "dispatched" => ENABLED AfterRequest(w)
             /\ ctx[w].stage = "processed" => ENABLED Send(w))

C9_Witness ==
    \E v, w \in Workers :
        /\ v # w
        /\ Answered(v) /\ ctx[v].out = 1
        /\ ctx[w].stage = "pushed"

(* C10: a preflight (OPTIONS with Origin and Access-Control-Request-Method *)
(* naming the route's method) to /api/test or /api/analyze is answered     *)
(* with a 2xx status, an Access-Control-Allow-Origin that is * or the      *)
(* Origin, the requested method among Access-Control-Allow-Methods and the *)
(* requested headers allowed; and every response to a request with an      *)
(* Origin, on every path, has such an Access-Control-Allow-Origin.         *)
C10_Preflight ==
    \A w \in Workers :
        (Answered(w) /\ ctx[w].req.origin # None)
        => /\ ctx[w].resp.acao \in {"*", ctx[w].req.origin}
           /\ (/\ ctx[w].req.method = "OPTIONS"
               /\ \/ ctx[w].req.path = TestPath /\ ctx[w].req.acrm = "GET"
                  \/ ctx[w].req.path = AnalyzePath /\ ctx[w].req.acrm = "POST")
              => /\ Is2xx(ctx[w].resp.status)
                 /\ ctx[w].req.acrm \in ctx[w].resp.acam
                 /\ ctx[w].resp.acah = ctx[w].req.acrh

C10_Witness ==
    \E w \in Workers :
        /\ Answered(w)
        /\ ctx[w].req.method = "OPTIONS"
        /\ ctx[w].req.path = AnalyzePath
        /\ ctx[w].req.origin = "https://a.example"
        /\ ctx[w].req.acrm = "POST"
        /\ ctx[w].req.acrh = "content-type"
        /\ ctx[w].resp.acah = "content-type"

=============================================================================
